---- MODULE Spec2Model ----
(***************************************************************************)
(* Ledger of the copra trading backend: purchase transactions, loans,      *)
(* loan payments, the cached supplier balance.  The state is the content   *)
(* of the MongoDB collections; every action is one route handler together  *)
(* with the Mongoose save hooks it triggers.                               *)
(*                                                                         *)
(* Money is in whole pesos.  Unit prices are multiples of 5, so that 40%   *)
(* of a transaction total is a whole number and integer arithmetic is the  *)
(* arithmetic of the code.  Timestamps, remarks, reference numbers and     *)
(* user references are left out: no handler branches on them.              *)
(***************************************************************************)
EXTENDS Integers, Sequences, FiniteSets, TLC

\* ------------------------------------------------------------------ bounds
MaxLoans == 2
MaxTransactions == 2
MaxManualPayments == 1
MaxPayments == 1
MaxQuantity == 2
MaxConcTransactions == 3
MaxHistoryTransactions == 3

Suppliers == {1}
Quantities == 0..MaxQuantity
LessKilos == {0}
UnitPrices == {5}
CreateStatuses == {"completed"}
LoanAmounts == {3, 8}
InterestRates == {20}
LoanPaymentAmounts == {0, 2, 4}
PaymentAmounts == {5}
BalanceInputs == {7}

VARIABLES
    loans,            \* collection loans, in creation order (createdAt ascending)
    transactions,     \* collection transactions, in creation order
    loanPayments,     \* collection loanpayments
    current_balance,  \* Supplier.current_balance, per supplier
    payments,         \* collection payments (payments made for transactions)
    creditScores,     \* collection creditscores: per supplier, {} or {the record}
    procs,            \* the handlers in flight, for the interleaved runs
    last,             \* history: the operation that ran last and the loans it found
    requested         \* history: the interest_rate each loan was requested with

vars == <<loans, transactions, loanPayments, current_balance, payments, creditScores,
          procs, last, requested>>

\* The database as one value, so that a handler is a composition of steps.
DB == [loans |-> loans, transactions |-> transactions,
       loanPayments |-> loanPayments, balance |-> current_balance,
       payments |-> payments, scores |-> creditScores]

\* ------------------------------------------------------- JavaScript values
\* A value read from a document is {v}, or {} when the path holds nothing
\* (undefined); arithmetic on {} gives {} (NaN).
Missing == {}
Num(o) == CHOOSE x \in o : TRUE
\* a || b
JsOr(a, b) == IF a = {} \/ a = {0} THEN b ELSE a
JsSub(a, b) == IF a = {} \/ b = {} THEN {} ELSE {Num(a) - Num(b)}
JsAdd(a, b) == IF a = {} \/ b = {} THEN {} ELSE {Num(a) + Num(b)}
\* a >= b: false when an argument is NaN or undefined
JsGe(a, b) == a # {} /\ b # {} /\ Num(a) >= Num(b)
\* MongoDB's $lt inside $expr: a missing field sorts below every number
MongoLt(a, b) == IF b = {} THEN FALSE ELSE (a = {} \/ Num(a) < Num(b))

Min(a, b) == IF a < b THEN a ELSE b

\* ------------------------------------------------------------ Loan model
\* LoanSchema declares supplier, amount, total_paid, status (and dates and
\* user references); it declares no total_amount_with_interest,
\* interest_rate, principal_paid or interest_paid.  The schema is strict
\* (Mongoose's default), so these paths are dropped when a document is
\* constructed or saved, and a stored loan never carries them.
LoanTotalAmountWithInterest(l) == Missing
LoanInterestRate(l) == Missing
LoanPrincipalPaid(l) == Missing
LoanInterestPaid(l) == Missing

\* new Loan({...}): the declared paths of the constructor's argument
NewLoan(s, amount) ==
    [supplier |-> s, amount |-> amount, total_paid |-> 0, status |-> "pending"]

\* LoanSchema.pre('save')
LoanPreSave(l) ==
    IF l.status = "approved" /\ l.total_paid >= l.amount
    THEN [l EXCEPT !.status = "paid"]
    ELSE l

\* loan.save() of an in-memory document mem that was read as `read`: the
\* pre-save hook runs on mem, then the paths whose value changed since the
\* read are written over the stored document.
SaveLoan(db, i, read, mem) ==
    LET m == LoanPreSave(mem)
        cur == db.loans[i]
        new == [cur EXCEPT
                  !.total_paid = IF m.total_paid # read.total_paid THEN m.total_paid ELSE @,
                  !.status = IF m.status # read.status THEN m.status ELSE @]
    IN [db EXCEPT !.loans[i] = new]

\* ------------------------------------------------- supplierBalanceUtils.js
ApprovedOfAnyStatus(db, s) ==
    {i \in 1..Len(db.loans) : db.loans[i].supplier = s}

\* $match: {supplier, status: 'approved'}
ApprovedOf(db, s) ==
    {i \in 1..Len(db.loans) : db.loans[i].supplier = s /\ db.loans[i].status = "approved"}

RECURSIVE SumRemaining(_, _)
SumRemaining(ls, S) ==
    IF S = {} THEN 0
    ELSE LET i == CHOOSE x \in S : TRUE
         IN (ls[i].amount - ls[i].total_paid) + SumRemaining(ls, S \ {i})

\* the $match / $group aggregation: the value written and returned
AggregateBalance(db, s) == SumRemaining(db.loans, ApprovedOf(db, s))

recalculateSupplierBalance(db, s) ==
    [db EXCEPT !.balance[s] = AggregateBalance(db, s)]


\* ------------------------------------------------------ LoanPayment model
\* LoanPaymentSchema.post('save'): reads the loan afresh, adds the payment
\* and saves.  The interest/principal split is computed on paths the loan
\* schema does not declare, so it stays on the in-memory object and is
\* lost with it; total_amount_with_interest falls back to the amount.
LoanPaymentPostSave(db, row) ==
    LET l == db.loans[row.loan]
        twi == IF JsOr(LoanTotalAmountWithInterest(l), Missing) = Missing
               THEN IF JsOr(LoanInterestRate(l), Missing) # Missing
                    THEN l.amount + (l.amount * Num(LoanInterestRate(l))) \div 100
                    ELSE l.amount
               ELSE Num(LoanTotalAmountWithInterest(l))
        paid == l.total_paid + row.amount
        mem == [l EXCEPT !.total_paid = paid,
                         !.status = IF paid >= twi THEN "paid" ELSE @]
    IN SaveLoan(db, row.loan, l, mem)

\* payment.save(): the row is inserted, then the post-save hook runs
SaveLoanPayment(db, row) ==
    LoanPaymentPostSave([db EXCEPT !.loanPayments = Append(@, row)], row)

DeleteOneKeepsRows(rows, t, l) == rows

\* LoanPayment.deleteOne({transaction, loan}): the first matching row
RECURSIVE DeleteOne(_, _, _)
DeleteOne(rows, t, l) ==
    IF rows = <<>> THEN <<>>
    ELSE IF Head(rows).transaction = t /\ Head(rows).loan = l THEN Tail(rows)
    ELSE <<Head(rows)>> \o DeleteOne(Tail(rows), t, l)

\* ------------------------------------------------------ Transaction model
\* transactionSchema.pre('save')
TransactionPreSave(doc, isNew, amountsModified) ==
    LET d1 == IF amountsModified
              THEN [doc EXCEPT !.total_amount = (doc.quantity - doc.less_kilo) * doc.unit_price]
              ELSE doc
        d2 == IF isNew \/ d1.amount_after_deduction = 0
              THEN [d1 EXCEPT !.amount_after_deduction = d1.total_amount]
              ELSE d1
    IN IF isNew THEN [d2 EXCEPT !.paid_amount = 0] ELSE d2

OutstandingLoansAnyPaid(db, s) ==
    SelectSeq([i \in 1..Len(db.loans) |-> i],
              LAMBDA i : db.loans[i].supplier = s /\ db.loans[i].status = "approved")

\* Loan.find({supplier, status: 'approved',
\*   $expr: {$lt: ['$total_paid', '$total_amount_with_interest']}}).sort({createdAt: 1})
OutstandingLoans(db, s) ==
    SelectSeq([i \in 1..Len(db.loans) |-> i],
              LAMBDA i : /\ db.loans[i].supplier = s
                         /\ db.loans[i].status = "approved"
                         /\ MongoLt({db.loans[i].total_paid},
                                    LoanTotalAmountWithInterest(db.loans[i])))

\* this.total_amount * 0.4
MaxDeductionAmount(total) == (total * 4) \div 10

\* The hook's loop over the outstanding loans.  acc carries the database,
\* remainingDeduction, totalDeduction and loanPaymentsArray.
RECURSIVE HookLoop(_, _, _, _)
HookLoop(acc, t, ids, read) ==
    IF ids = <<>> \/ acc.remaining <= 0 THEN acc
    ELSE
      LET i == Head(ids)
          l == read[i]
          full == Num(JsOr(LoanTotalAmountWithInterest(l), {l.amount}))
          currentDeduction == Min(acc.remaining, full - l.total_paid)
      IN IF currentDeduction > 0
         THEN LET paid == l.total_paid + currentDeduction
                  mem == [l EXCEPT !.total_paid = paid,
                                   !.status = IF paid >= full THEN "paid" ELSE @]
                  db1 == SaveLoan(acc.db, i, l, mem)
                  db2 == SaveLoanPayment(db1, [loan |-> i, transaction |-> t,
                                               amount |-> currentDeduction])
              IN HookLoop([db |-> db2,
                           remaining |-> acc.remaining - currentDeduction,
                           total |-> acc.total + currentDeduction,
                           lps |-> Append(acc.lps, [loan |-> i, amount |-> currentDeduction])],
                          t, Tail(ids), read)
         ELSE HookLoop(acc, t, Tail(ids), read)

\* transactionSchema.post('save'), the auto-debit part
HookAutoDebit(db, t) ==
    LET doc == db.transactions[t]
        ids == OutstandingLoans(db, doc.supplier)
    IN IF ids # <<>>
       THEN LET acc == HookLoop([db |-> db, remaining |-> MaxDeductionAmount(doc.total_amount),
                                 total |-> 0, lps |-> <<>>], t, ids, db.loans)
            IN [acc.db EXCEPT !.transactions[t] =
                   [@ EXCEPT !.loan_deduction = acc.total,
                             !.amount_after_deduction = doc.total_amount - acc.total,
                             !.paid_amount = doc.total_amount - acc.total,
                             !.loan_payments = acc.lps]]
       ELSE [db EXCEPT !.transactions[t] =
                   [@ EXCEPT !.amount_after_deduction = doc.total_amount,
                             !.paid_amount = doc.total_amount]]

\* Math.round(a / b) for a >= 0, b > 0
RoundDiv(a, b) == (2 * a + b) \div (2 * b)

\* this.constructor.find({supplier, status: 'completed'}) of the hook
HookCompleted(db, s) ==
    {u \in 1..Len(db.transactions) :
        db.transactions[u].supplier = s /\ db.transactions[u].status = "completed"}

RECURSIVE SumOfTotals(_, _)
SumOfTotals(ts, S) ==
    IF S = {} THEN 0
    ELSE LET u == CHOOSE x \in S : TRUE
         IN ts[u].total_amount + SumOfTotals(ts, S \ {u})

\* lines 393-401: creditPercentage in percent, from finalScore = x / (3 * d)
CreditPercentage(x, d) ==
    IF x >= 240 * d THEN 60
    ELSE IF x >= 180 * d THEN 50
    ELSE IF x >= 120 * d THEN 40
    ELSE IF x > 90 * d THEN 30
    ELSE IF x >= 60 * d THEN 15
    ELSE 0

\* lines 345-359: the record of a supplier's first transaction.  A record
\* holds credit_percentage in percent and eligible_amount in hundredths of a
\* peso (total_amount * 0.15 is not rounded); average_transaction, the
\* assessment date and the remarks are left out.
InitialScore(total) ==
    [score |-> 20, transaction_consistency |-> 0, total_supply_score |-> 0,
     transaction_count_score |-> 0, eligible_amount |-> total * 15,
     transaction_count |-> 1, credit_percentage |-> 15]

\* lines 376-437: the record computed from two or more transactions, for a
\* largest transaction above 0
ComputedScore(ts, S) ==
    LET n == Cardinality(S)
        smallest == CHOOSE a \in {ts[u].total_amount : u \in S} :
                        \A u \in S : a <= ts[u].total_amount
        largest == CHOOSE a \in {ts[u].total_amount : u \in S} :
                        \A u \in S : a >= ts[u].total_amount
        total == SumOfTotals(ts, S)
        tcs == Min(100, 10 * n)
        \* transactionConsistency + totalSupplyScore + transactionCountScore = x / d
        d == largest * n
        x == 100 * smallest * n + 100 * total + tcs * d
        pct == CreditPercentage(x, d)
    IN [score |-> RoundDiv(x, 3 * d),
        transaction_consistency |-> RoundDiv(100 * smallest, largest),
        total_supply_score |-> RoundDiv(100 * total, d),
        transaction_count_score |-> tcs,
        eligible_amount |-> 100 * RoundDiv(total * pct, 100 * n),
        transaction_count |-> n,
        credit_percentage |-> pct]

\* transactionSchema.post('save'), the credit-score part.  ok is FALSE when
\* the part throws: with a largest transaction of 0 the scores are NaN and
\* creditScore.save() fails validation.
HookCreditScore(db, t) ==
    LET s == db.transactions[t].supplier
        S == HookCompleted(db, s)
    IN IF Cardinality(S) < 2
       THEN [ok |-> TRUE,
             db |-> IF db.scores[s] = {}
                    THEN [db EXCEPT !.scores[s] = {InitialScore(db.transactions[t].total_amount)}]
                    ELSE db]
       ELSE IF \A u \in S : db.transactions[u].total_amount = 0
       THEN [ok |-> FALSE, db |-> db]
       ELSE [ok |-> TRUE,
             db |-> [db EXCEPT !.scores[s] = {ComputedScore(db.transactions, S)}]]

\* lines 443-449: the balance is recalculated unless the part before threw
HookBalance(r, s) ==
    IF r.ok THEN recalculateSupplierBalance(r.db, s) ELSE r.db

TransactionPostSaveAnyStatus(db, t) ==
    HookBalance(HookCreditScore(HookAutoDebit(db, t), t), db.transactions[t].supplier)

\* transactionSchema.post('save'): only for a completed transaction; the
\* auto-debit, then the credit score, then the supplier balance.  An error
\* is caught at the end of the hook (lines 451-454), past the balance.
TransactionPostSave(db, t) ==
    IF db.transactions[t].status = "completed"
    THEN HookBalance(HookCreditScore(HookAutoDebit(db, t), t), db.transactions[t].supplier)
    ELSE db

\* The version key of a saved document: Mongoose increments __v when the
\* save sets an array path (here loan_payments) to a new value
SavedVersion(read, mem) ==
    IF mem.loan_payments # read.loan_payments THEN read.__v + 1 ELSE read.__v

\* transaction.save() of an existing document: pre-save hook, write, post-save hook
SaveTransaction(db, t, mem, amountsModified) ==
    TransactionPostSave(
        [db EXCEPT !.transactions[t] =
            [TransactionPreSave(mem, FALSE, amountsModified)
                EXCEPT !.__v = SavedVersion(db.transactions[t], mem)]], t)

\* new Transaction({...}).save()
InsertTransaction(db, doc) ==
    LET t == Len(db.transactions) + 1
    IN TransactionPostSave(
        [db EXCEPT !.transactions = Append(@, TransactionPreSave(doc, TRUE, TRUE))], t)


\* ------------------------------------------- POST /transactions, by steps
\* Each step is the code between two awaits that write; loc is the
\* handler's local state (its in-memory documents).

\* lines 143-165: build the document and save it (first save, with its hooks)
CreateInsert(db, s, quantity, less_kilo, unit_price, status) ==
    LET total_price == (quantity - less_kilo) * unit_price
        doc == [supplier |-> s, quantity |-> quantity, less_kilo |-> less_kilo,
                unit_price |-> unit_price, total_amount |-> total_price,
                status |-> status, loan_deduction |-> 0,
                amount_after_deduction |-> 0, paid_amount |-> 0,
                loan_payments |-> <<>>, is_deleted |-> FALSE, __v |-> 0]
    IN [db |-> InsertTransaction(db, doc),
        loc |-> [t |-> Len(db.transactions) + 1, total_price |-> total_price,
                 loan |-> 0, read |-> <<>>, deduction |-> 0]]

\* Loan.find({supplier, status: 'approved'}).sort({createdAt: 1})
ApprovedLoans(db, s) ==
    SelectSeq([i \in 1..Len(db.loans) |-> i],
              LAMBDA i : db.loans[i].supplier = s /\ db.loans[i].status = "approved")

\* Math.min(total_price, remainingLoanAmount)
DeductionAmount(total_price, loan) == Min(total_price, loan.amount - loan.total_paid)

\* lines 168-192: read the approved loans, take the oldest, size the deduction
CreateFindLoans(db, loc) ==
    LET ids == ApprovedLoans(db, db.transactions[loc.t].supplier)
    IN IF ids = <<>> THEN loc
       ELSE [loc EXCEPT !.loan = Head(ids),
                        !.read = <<db.loans[Head(ids)]>>,
                        !.deduction = DeductionAmount(loc.total_price, db.loans[Head(ids)])]

CreateSecondSaveWithoutList(db, loc) ==
    LET doc == db.transactions[loc.t]
    IN SaveTransaction(db, loc.t,
           [doc EXCEPT !.loan_deduction = loc.deduction,
                       !.amount_after_deduction = loc.total_price - loc.deduction,
                       !.paid_amount = loc.total_price - loc.deduction], FALSE)

\* lines 196-209 (a loan was found and the deduction is positive) or
\* lines 247-251 (no loan): the second save of the transaction
CreateSecondSave(db, loc) ==
    LET doc == db.transactions[loc.t]
    IN IF loc.loan = 0
       THEN SaveTransaction(db, loc.t,
                [doc EXCEPT !.loan_deduction = 0,
                            !.amount_after_deduction = loc.total_price,
                            !.paid_amount = loc.total_price], FALSE)
       ELSE SaveTransaction(db, loc.t,
                [doc EXCEPT !.loan_deduction = loc.deduction,
                            !.amount_after_deduction = loc.total_price - loc.deduction,
                            !.paid_amount = loc.total_price - loc.deduction,
                            !.loan_payments = <<[loan |-> loc.loan, amount |-> loc.deduction]>>],
                FALSE)

\* lines 212-225: the LoanPayment record of the deduction
CreatePaymentSave(db, loc) ==
    SaveLoanPayment(db, [loan |-> loc.loan, transaction |-> loc.t, amount |-> loc.deduction])

\* lines 228-239: the handler's own update of the loan it read at line 168
CreateLoanSave(db, loc) ==
    LET read == loc.read[1]
        paid == read.total_paid + loc.deduction
        mem == [read EXCEPT !.total_paid = paid,
                            !.status = IF paid >= read.amount THEN "paid" ELSE @]
    IN SaveLoan(db, loc.loan, read, mem)

\* whether the handler goes on after reading the loans
CreateDebits(loc) == loc.loan # 0 /\ loc.deduction > 0
CreateSavesAgain(loc) == loc.loan = 0 \/ loc.deduction > 0

\* the handler after its second save
CreateAfterSave(db2, loc) ==
    IF ~CreateDebits(loc) THEN db2
    ELSE CreateLoanSave(CreatePaymentSave(db2, loc), loc)

\* the handler after it read the loans
CreateAfterFind(db1, loc) ==
    IF ~CreateSavesAgain(loc) THEN db1
    ELSE CreateAfterSave(CreateSecondSave(db1, loc), loc)

CreateAfterInsert(r1) == CreateAfterFind(r1.db, CreateFindLoans(r1.db, r1.loc))

\* the whole handler, run without interleaving
CreateHandler(db, s, quantity, less_kilo, unit_price, status) ==
    IF quantity = 0 \/ unit_price = 0 THEN db
    ELSE CreateAfterInsert(CreateInsert(db, s, quantity, less_kilo, unit_price, status))

\* --------------------------------- PATCH /transactions/:id/cancel and /void
ReversedLoanStaysPaid(l, amount) == [l EXCEPT !.total_paid = @ - amount]

\* lines 355-361: the loan with the recorded amount taken back
ReversedLoan(l, amount) ==
    LET paid == l.total_paid - amount
    IN [l EXCEPT !.total_paid = paid,
                 !.status = IF l.status = "paid" /\ paid < l.amount THEN "approved" ELSE @]

RECURSIVE ReverseLoop(_, _, _)
ReverseLoop(db, t, lps) ==
    IF lps = <<>> THEN db
    ELSE
      LET payment == Head(lps)
          l == db.loans[payment.loan]
          db1 == SaveLoan(db, payment.loan, l, ReversedLoan(l, payment.amount))
          db2 == [db1 EXCEPT !.loanPayments = DeleteOne(@, t, payment.loan)]
      IN ReverseLoop(db2, t, Tail(lps))

ReverseStatusAlwaysOk(db, t) == 200

\* lines 341-346 (cancel), 419-424 (void): the response to a transaction
\* that is not completed
ReverseStatus(db, t) ==
    IF db.transactions[t].status # "completed" THEN 400 ELSE 200

ReverseHandler(db, t, target) ==
    LET doc == db.transactions[t]
    IN IF ReverseStatus(db, t) # 200 THEN db
       ELSE LET db1 == IF doc.loan_deduction > 0 /\ Len(doc.loan_payments) > 0
                       THEN ReverseLoop(db, t, doc.loan_payments)
                       ELSE db
            IN SaveTransaction(db1, t,
                   [doc EXCEPT !.status = target, !.loan_deduction = 0,
                               !.loan_payments = <<>>, !.paid_amount = 0], FALSE)

\* The reversal runs in a MongoDB session (lines 331-332): its writes are
\* made with {session}, and the catch block aborts the session's transaction.
SessionAbortKeepsWrites(db, written) == written

\* lines 396-399: session.abortTransaction() discards what was written
SessionAbort(db, written) == db

\* the session's writes when the first n writes of the loop succeeded
RECURSIVE ReversePartial(_, _, _, _)
ReversePartial(db, t, lps, n) ==
    IF lps = <<>> \/ n = 0 THEN db
    ELSE
      LET payment == Head(lps)
          l == db.loans[payment.loan]
          db1 == SaveLoan(db, payment.loan, l, ReversedLoan(l, payment.amount))
          db2 == [db1 EXCEPT !.loanPayments = DeleteOne(@, t, payment.loan)]
      IN IF n = 1 THEN db1 ELSE ReversePartial(db2, t, Tail(lps), n - 2)

\* the writes a reversal of transaction t makes: two per recorded loan
\* payment, then the transaction itself
ReverseWrites(db, t) ==
    LET doc == db.transactions[t]
    IN IF doc.loan_deduction > 0 /\ Len(doc.loan_payments) > 0
       THEN 2 * Len(doc.loan_payments) + 1
       ELSE 1

\* cancel or void whose write number f throws
ReverseFailingHandler(db, t, target, f) ==
    LET doc == db.transactions[t]
    IN IF ReverseStatus(db, t) # 200 THEN db
       ELSE SessionAbort(db, ReversePartial(db, t, doc.loan_payments, f - 1))

\* POST /transactions in which an awaited call throws: the handler has no
\* session, its catch block (lines 264-270) only answers 500.
CreateFailPoints == {"find", "save", "pay", "loan"}

\* the failing handler after its second save
CreateFailingAfterSave(db2, loc, f) ==
    IF f = "pay" THEN db2 ELSE CreatePaymentSave(db2, loc)

\* the failing handler after it read the loans
CreateFailingAfterFind(db1, loc, f) ==
    IF f = "find" \/ f = "save" \/ ~CreateDebits(loc) THEN db1
    ELSE CreateFailingAfterSave(CreateSecondSave(db1, loc), loc, f)

CreateFailingAfterInsert(r1, f) ==
    CreateFailingAfterFind(r1.db, CreateFindLoans(r1.db, r1.loc), f)

CreateFailingHandler(db, s, quantity, less_kilo, unit_price, status, f) ==
    IF quantity = 0 \/ unit_price = 0 THEN db
    ELSE CreateFailingAfterInsert(
             CreateInsert(db, s, quantity, less_kilo, unit_price, status), f)

\* ------------------------------------------------ the other transaction routes
\* PUT /transactions/:id with body {quantity}
UpdateHandler(db, t, quantity) ==
    LET doc == db.transactions[t]
    IN SaveTransaction(db, t, [doc EXCEPT !.quantity = quantity], quantity # doc.quantity)

\* DELETE /transactions/:id
SoftDeleteHandler(db, t) ==
    SaveTransaction(db, t, [db.transactions[t] EXCEPT !.is_deleted = TRUE], FALSE)

\* paymentSchema.pre('save') for a new payment
PaymentPreSave(db, t, amount) ==
    LET doc == db.transactions[t]
        paid == doc.paid_amount + amount
    IN SaveTransaction(db, t,
           [doc EXCEPT !.paid_amount = paid,
                       !.status = IF paid >= doc.total_amount THEN "completed" ELSE "pending"],
           FALSE)

\* POST /payments: the status the handler sets on its own copy is never saved
PaymentHandler(db, t, amount) ==
    [PaymentPreSave(db, t, amount) EXCEPT
        !.payments = Append(@, [transaction |-> t, amount |-> amount])]

\* ------------------------------------------------------------- loan routes
CompletedOfAnyStatus(db, s) ==
    {t \in 1..Len(db.transactions) : db.transactions[t].supplier = s}

\* Transaction.find({supplier, status: 'completed'})
CompletedOf(db, s) ==
    {t \in 1..Len(db.transactions) :
        db.transactions[t].supplier = s /\ db.transactions[t].status = "completed"}

RECURSIVE SumTotalAmount(_, _)
SumTotalAmount(ts, S) ==
    IF S = {} THEN 0
    ELSE LET t == CHOOSE x \in S : TRUE
         IN ts[t].total_amount + SumTotalAmount(ts, S \ {t})

\* Math.round(averageTransaction * 0.40), for count > 0 and a total >= 0
LoanLimit(total, count) == (4 * total + 5 * count) \div (10 * count)

\* checkLoanEligibility of loan.routes.js
checkLoanEligibility(db, s) ==
    LET S == CompletedOf(db, s)
    IN IF Cardinality(S) = 0
       THEN [eligible |-> FALSE, limit |-> 0]
       ELSE [eligible |-> TRUE,
             limit |-> LoanLimit(SumTotalAmount(db.transactions, S), Cardinality(S))]

\* lines 320-329: the response to a supplier that is not eligible
CreateLoanStatus(db, s) ==
    LET e == checkLoanEligibility(db, s)
    IN IF ~e.eligible \/ e.limit <= 0 THEN 400 ELSE 201

\* POST /loans
CreateLoanHandler(db, s, amount, interest_rate) ==
    IF CreateLoanStatus(db, s) # 201 THEN db
       ELSE [db EXCEPT !.loans = Append(@, LoanPreSave(NewLoan(s, amount)))]

\* PATCH /loans/:id/approve
ApproveHandler(db, i) ==
    LET l == db.loans[i]
    IN IF l.status # "pending" THEN db
       ELSE SaveLoan(db, i, l, [l EXCEPT !.total_paid = 0, !.status = "approved"])

\* PATCH /loans/:id/reject
RejectHandler(db, i) ==
    LET l == db.loans[i]
    IN IF l.status # "pending" THEN db
       ELSE SaveLoan(db, i, l, [l EXCEPT !.status = "rejected"])

\* PATCH /loans/:id/cancel and PATCH /loans/:id/void
LoanCloseHandler(db, i, target) ==
    LET l == db.loans[i]
    IN IF l.status # "pending" /\ l.status # "approved" THEN db
       ELSE SaveLoan(db, i, l, [l EXCEPT !.status = target])

\* POST /loans/:id/payments
LoanPaymentHandler(db, i, amount) ==
    IF amount <= 0 \/ db.loans[i].status # "approved" THEN db
    ELSE SaveLoanPayment(db, [loan |-> i, transaction |-> 0, amount |-> amount])

\* POST /loanpayments.  The split and the balance are computed from
\* total_amount_with_interest, which a stored loan does not carry: the value
\* of the balance update is NaN, its cast to Number fails and the handler
\* ends in its catch after the payment and the loan were saved.
LoanPaymentsPostHandler(db, i, amount) ==
    LET read == db.loans[i]
        db1 == SaveLoanPayment(db, [loan |-> i, transaction |-> 0, amount |-> amount])
        paid == read.total_paid + amount
        mem == [read EXCEPT !.total_paid = paid,
                            !.status = IF JsGe({paid}, LoanTotalAmountWithInterest(read))
                                       THEN "paid" ELSE @]
        db2 == SaveLoan(db1, i, read, mem)
        balance == JsSub({0}, JsSub(LoanTotalAmountWithInterest(read), {paid}))
    IN IF balance = Missing THEN db2
       ELSE [db2 EXCEPT !.balance[read.supplier] = Num(balance)]

\* --------------------------------------------------------- supplier routes
\* PUT /suppliers/:id with body {current_balance}
SupplierUpdateHandler(db, s, balance) == [db EXCEPT !.balance[s] = balance]

\* POST /suppliers/:id/sync-balance
SyncBalanceHandler(db, s) == recalculateSupplierBalance(db, s)

\* ------------------------------------------------------------------ actions
Procs == {1, 2}
Idle == [pc |-> "idle", loc |-> <<>>]

\* last.before holds the loans as they were before the latest create
\* operation, for as long as nothing but that create and its reversal ran.
Other == [op |-> "other", t |-> 0, kept |-> FALSE, amount |-> 0, before |-> <<>>]

Init ==
    /\ loans = <<>>
    /\ transactions = <<>>
    /\ loanPayments = <<>>
    /\ payments = <<>>
    /\ creditScores = [s \in Suppliers |-> {}]
    /\ current_balance = [s \in Suppliers |-> 0]
    /\ procs = [p \in Procs |-> Idle]
    /\ last = Other
    /\ requested = <<>>

Store(db) ==
    /\ loans' = db.loans
    /\ transactions' = db.transactions
    /\ loanPayments' = db.loanPayments
    /\ payments' = db.payments
    /\ creditScores' = db.scores
    /\ current_balance' = db.balance

\* an operation the handler rejected changed nothing and is not recorded
Commit(db, op) ==
    /\ Store(db)
    /\ last' = IF db = DB THEN Other ELSE [Other EXCEPT !.op = op]
    /\ UNCHANGED <<procs, requested>>

ManualRows == {k \in 1..Len(loanPayments) : loanPayments[k].transaction = 0}

\* the create's result is stored; a rejected request is not recorded
CreateCommit(db) ==
    /\ Store(db)
    /\ last' = IF Len(db.transactions) = Len(transactions) THEN Other
               ELSE [op |-> "create", t |-> Len(db.transactions), kept |-> TRUE,
                     amount |-> db.transactions[Len(db.transactions)].loan_deduction,
                     before |-> loans]
    /\ UNCHANGED <<procs, requested>>

CreateTransactionUpTo(max, statuses) ==
    /\ Len(transactions) < max
    /\ \E s \in Suppliers, q \in Quantities, lk \in LessKilos, up \in UnitPrices,
          st \in statuses :
        CreateCommit(CreateHandler(DB, s, q, lk, up, st))

CreateTransactionAs(statuses) == CreateTransactionUpTo(MaxTransactions, statuses)

CreateTransaction == CreateTransactionAs(CreateStatuses)

\* POST /transactions in the longer transaction histories
CreateHistoryTransaction == CreateTransactionUpTo(MaxHistoryTransactions, CreateStatuses)

\* POST /transactions with body status 'pending'
CreatePendingTransaction == CreateTransactionAs({"pending"})

\* last.kept: the reversal follows the create of the same transaction at once
Reverse(t, target) ==
    LET db == ReverseHandler(DB, t, target)
    IN /\ Store(db)
       /\ last' = IF ReverseStatus(DB, t) # 200
                  THEN [Other EXCEPT !.op = "reverseRejected", !.t = t]
                  ELSE [op |-> target, t |-> t,
                        kept |-> last.op = "create" /\ last.t = t,
                        amount |-> transactions[t].loan_deduction,
                        before |-> IF last.op = "create" /\ last.t = t
                                   THEN last.before ELSE <<>>]
       /\ UNCHANGED <<procs, requested>>

ReverseFails(t, target) ==
    /\ ReverseStatus(DB, t) = 200
    /\ \E f \in 1..ReverseWrites(DB, t) :
          /\ Store(ReverseFailingHandler(DB, t, target, f))
          /\ last' = [Other EXCEPT !.op = "reverseFailed", !.t = t, !.amount = f]
    /\ UNCHANGED <<procs, requested>>

CancelFails == \E t \in 1..Len(transactions) : ReverseFails(t, "cancelled")

VoidFails == \E t \in 1..Len(transactions) : ReverseFails(t, "voided")

CreateFails ==
    /\ Len(transactions) < MaxTransactions
    /\ \E s \in Suppliers, q \in 1..MaxQuantity, lk \in LessKilos, up \in UnitPrices,
          st \in CreateStatuses, f \in CreateFailPoints :
          /\ Store(CreateFailingHandler(DB, s, q, lk, up, st, f))
          /\ last' = [Other EXCEPT !.op = "createFailed", !.before = loans]
    /\ UNCHANGED <<procs, requested>>

CancelTransaction ==
    \E t \in 1..Len(transactions) : Reverse(t, "cancelled")

VoidTransaction ==
    \E t \in 1..Len(transactions) : Reverse(t, "voided")

UpdateTransaction ==
    \E t \in 1..Len(transactions), q \in Quantities :
        LET db == UpdateHandler(DB, t, q)
        IN /\ Store(db)
           /\ last' = IF db = DB THEN Other ELSE [Other EXCEPT !.op = "update", !.t = t]
           /\ UNCHANGED <<procs, requested>>

SoftDeleteTransaction ==
    \E t \in 1..Len(transactions) :
        Commit(SoftDeleteHandler(DB, t), "delete")

RecordPayment ==
    /\ Len(payments) < MaxPayments
    /\ \E t \in 1..Len(transactions), a \in PaymentAmounts :
        Commit(PaymentHandler(DB, t, a), "payment")

CreateLoan ==
    /\ Len(loans) < MaxLoans
    /\ \E s \in Suppliers, a \in LoanAmounts, r \in InterestRates :
        /\ Store(CreateLoanHandler(DB, s, a, r))
        /\ last' = IF CreateLoanStatus(DB, s) # 201
                   THEN [Other EXCEPT !.op = "createLoanRejected", !.t = s]
                   ELSE [Other EXCEPT !.op = "createLoan", !.t = s]
        /\ requested' = IF CreateLoanStatus(DB, s) # 201 THEN requested
                        ELSE Append(requested, r)
        /\ UNCHANGED procs

ApproveLoan ==
    \E i \in 1..Len(loans) :
        Commit(ApproveHandler(DB, i), "approve")

RejectLoan ==
    \E i \in 1..Len(loans) :
        Commit(RejectHandler(DB, i), "rejectLoan")

CancelLoan ==
    \E i \in 1..Len(loans) :
        Commit(LoanCloseHandler(DB, i, "cancelled"), "cancelLoan")

VoidLoan ==
    \E i \in 1..Len(loans) :
        Commit(LoanCloseHandler(DB, i, "voided"), "voidLoan")

LoanPayment ==
    /\ Cardinality(ManualRows) < MaxManualPayments
    /\ \E i \in 1..Len(loans), a \in LoanPaymentAmounts :
        Commit(LoanPaymentHandler(DB, i, a), "loanPayment")

LoanPaymentsPost ==
    /\ Cardinality(ManualRows) < MaxManualPayments
    /\ \E i \in 1..Len(loans), a \in LoanPaymentAmounts :
        Commit(LoanPaymentsPostHandler(DB, i, a), "loanPayment")

SupplierUpdate ==
    \E s \in Suppliers, b \in BalanceInputs :
        Commit(SupplierUpdateHandler(DB, s, b), "supplierUpdate")

SyncBalance ==
    \E s \in Suppliers :
        /\ Store(SyncBalanceHandler(DB, s))
        /\ last' = [Other EXCEPT !.op = "syncBalance", !.t = s]
        /\ UNCHANGED <<procs, requested>>

\* The ledger operations: transactions created and reversed, loans granted
\* and paid, the balance written.
Next ==
    \/ CreateTransaction
    \/ CancelTransaction
    \/ VoidTransaction
    \/ CreateLoan
    \/ ApproveLoan
    \/ LoanPayment
    \/ LoanPaymentsPost
    \/ SupplierUpdate
    \/ SyncBalance

Spec == Init /\ [][Next]_vars

\* The ledger operations with rejected requests and failing writes.
NextFaults ==
    \/ CreateTransaction
    \/ CreatePendingTransaction
    \/ CancelTransaction
    \/ VoidTransaction
    \/ CreateLoan
    \/ ApproveLoan
    \/ CancelFails
    \/ VoidFails
    \/ CreateFails

SpecFaults == Init /\ [][NextFaults]_vars

\* The operations that change a loan's status.
NextLoans ==
    \/ CreateTransaction
    \/ CancelTransaction
    \/ VoidTransaction
    \/ CreateLoan
    \/ ApproveLoan
    \/ RejectLoan
    \/ CancelLoan
    \/ VoidLoan
    \/ LoanPayment
    \/ LoanPaymentsPost

SpecLoans == Init /\ [][NextLoans]_vars

\* The operations that save a transaction again after it was created.
NextSaves ==
    \/ CreateTransaction
    \/ CreateLoan
    \/ ApproveLoan
    \/ LoanPayment
    \/ UpdateTransaction
    \/ SoftDeleteTransaction
    \/ RecordPayment

SpecSaves == Init /\ [][NextSaves]_vars

\* The history of a supplier's transactions: created, saved again, reversed.
NextHistory ==
    \/ CreateHistoryTransaction
    \/ CancelTransaction
    \/ VoidTransaction
    \/ UpdateTransaction

SpecHistory == Init /\ [][NextHistory]_vars

\* The operations that can follow the reversal of a transaction.
NextTerminal ==
    \/ CreateTransaction
    \/ CancelTransaction
    \/ VoidTransaction
    \/ SoftDeleteTransaction
    \/ RecordPayment
    \/ CreateLoan
    \/ ApproveLoan

SpecTerminal == Init /\ [][NextTerminal]_vars


\* ------------------------------------- POST /transactions, two requests in flight
\* A handler gives way at each await; the steps of two handlers interleave.
Step(p, pc, loc) == procs' = [procs EXCEPT ![p] = [pc |-> pc, loc |-> loc]]

CStart(p) ==
    /\ procs[p].pc = "idle"
    /\ Len(transactions) < MaxConcTransactions
    /\ \E s \in Suppliers, q \in 1..MaxQuantity, lk \in LessKilos, up \in UnitPrices,
          st \in CreateStatuses :
        LET r == CreateInsert(DB, s, q, lk, up, st)
        IN Store(r.db) /\ Step(p, "find", r.loc)
    /\ UNCHANGED <<last, requested>>

CFind(p) ==
    /\ procs[p].pc = "find"
    /\ LET loc == CreateFindLoans(DB, procs[p].loc)
       IN IF CreateSavesAgain(loc) THEN Step(p, "save", loc) ELSE procs' = [procs EXCEPT ![p] = Idle]
    /\ UNCHANGED <<loans, transactions, loanPayments, current_balance, payments,
                 creditScores, last, requested>>

CSave(p) ==
    /\ procs[p].pc = "save"
    /\ Store(CreateSecondSave(DB, procs[p].loc))
    /\ IF CreateDebits(procs[p].loc) THEN Step(p, "pay", procs[p].loc)
       ELSE procs' = [procs EXCEPT ![p] = Idle]
    /\ UNCHANGED <<last, requested>>

CPay(p) ==
    /\ procs[p].pc = "pay"
    /\ Store(CreatePaymentSave(DB, procs[p].loc))
    /\ Step(p, "loan", procs[p].loc)
    /\ UNCHANGED <<last, requested>>

CLoan(p) ==
    /\ procs[p].pc = "loan"
    /\ Store(CreateLoanSave(DB, procs[p].loc))
    /\ procs' = [procs EXCEPT ![p] = Idle]
    /\ UNCHANGED <<last, requested>>

Quiescent == \A p \in Procs : procs[p].pc = "idle"

\* loans are requested and approved between requests, not during one
CreateLoanQuiet == Quiescent /\ CreateLoan
ApproveLoanQuiet == Quiescent /\ ApproveLoan

NextConc ==
    \/ \E p \in Procs : CStart(p)
    \/ \E p \in Procs : CFind(p)
    \/ \E p \in Procs : CSave(p)
    \/ \E p \in Procs : CPay(p)
    \/ \E p \in Procs : CLoan(p)
    \/ CreateLoanQuiet
    \/ ApproveLoanQuiet

SpecConc == Init /\ [][NextConc]_vars

\* ------------- PATCH /transactions/:id/cancel and /void, two requests in flight
\* The handler reads without the session (lines 335 and 352): it reads the
\* committed documents.  Its writes are made with {session}: they are held
\* in the session's MongoDB transaction, which sees the snapshot taken at its
\* first operation and its own writes, and reach the collections at
\* commitTransaction.  A write to a document that another open transaction
\* has written, or that was committed after the snapshot, fails with a
\* WriteConflict; the catch block aborts (lines 396-399).
Reversing(p) == procs[p].pc \in {"rfind", "rloan", "rdelete", "rsave", "rcommit"}

NothingWritten == [loans |-> {}, rows |-> {}, transactions |-> {}]

SessionSnapshot(loc) == IF loc.snap = <<>> THEN DB ELSE loc.snap[1]
SessionView(loc) == IF loc.view = <<>> THEN DB ELSE loc.view[1]

RowsOf(rows, t, l) ==
    {k \in 1..Len(rows) : rows[k].transaction = t /\ rows[k].loan = l}

LoanWriteConflict(p, i) ==
    \/ \E q \in Procs \ {p} : Reversing(q) /\ i \in procs[q].loc.written.loans
    \/ SessionSnapshot(procs[p].loc).loans[i] # loans[i]

RowWriteConflict(p, t, l) ==
    \/ \E q \in Procs \ {p} : Reversing(q) /\ <<t, l>> \in procs[q].loc.written.rows
    \/ Cardinality(RowsOf(SessionSnapshot(procs[p].loc).loanPayments, t, l))
          # Cardinality(RowsOf(loanPayments, t, l))

TransactionWriteConflict(p, t) ==
    \/ \E q \in Procs \ {p} : Reversing(q) /\ t \in procs[q].loc.written.transactions
    \/ SessionSnapshot(procs[p].loc).transactions[t] # transactions[t]

VersionMatchesAlways(cur, read) == TRUE

\* lines 379-382: loan_payments is set to a new array, so the save's update
\* has the version the document was read with in its filter; a filter that
\* matches no document makes save() throw a VersionError
VersionMatches(cur, read) == cur.__v = read.__v

\* session.abortTransaction(): the request ends, its writes are dropped
RAbort(p, error) ==
    /\ procs' = [procs EXCEPT ![p] = Idle]
    /\ last' = [Other EXCEPT !.op = error, !.t = procs[p].loc.t,
                             !.amount = procs[p].loc.doc.loan_deduction]
    /\ UNCHANGED <<loans, transactions, loanPayments, current_balance, payments,
                   creditScores, requested>>

RKeep(p, pc, loc) ==
    /\ Step(p, pc, loc)
    /\ UNCHANGED <<loans, transactions, loanPayments, current_balance, payments,
                   creditScores, last, requested>>

\* lines 331-346: the session is opened, the transaction is read and its
\* status is checked.  A second request is about the same transaction.
RStart(p) ==
    /\ procs[p].pc = "idle"
    /\ \E t \in 1..Len(transactions), target \in {"cancelled", "voided"} :
        /\ ReverseStatus(DB, t) = 200
        /\ \A q \in Procs \ {p} : Reversing(q) => procs[q].loc.t = t
        /\ LET doc == transactions[t]
               rest == IF doc.loan_deduction > 0 /\ Len(doc.loan_payments) > 0
                       THEN doc.loan_payments ELSE <<>>
           IN RKeep(p, IF rest = <<>> THEN "rsave" ELSE "rfind",
                    [t |-> t, target |-> target, doc |-> doc, rest |-> rest,
                     read |-> <<>>, snap |-> <<>>, view |-> <<>>,
                     written |-> NothingWritten])

\* line 352: Loan.findById(payment.loan)
RFind(p) ==
    /\ procs[p].pc = "rfind"
    /\ RKeep(p, "rloan",
             [procs[p].loc EXCEPT !.read = <<loans[Head(procs[p].loc.rest).loan]>>])

\* lines 355-364: the amount is taken back from the loan that was read and
\* the loan is saved in the session
RLoan(p) ==
    /\ procs[p].pc = "rloan"
    /\ LET loc == procs[p].loc
           payment == Head(loc.rest)
           view == SessionView(loc)
           view2 == SaveLoan(view, payment.loan, loc.read[1],
                             ReversedLoan(loc.read[1], payment.amount))
           writes == view2.loans[payment.loan] # view.loans[payment.loan]
       IN IF writes /\ LoanWriteConflict(p, payment.loan)
          THEN RAbort(p, "writeConflict")
          ELSE RKeep(p, "rdelete",
                     [loc EXCEPT !.snap = <<SessionSnapshot(loc)>>,
                                 !.view = <<view2>>,
                                 !.written.loans =
                                     IF writes THEN @ \cup {payment.loan} ELSE @])

\* lines 367-370: LoanPayment.deleteOne({transaction, loan}).session(session)
RDelete(p) ==
    /\ procs[p].pc = "rdelete"
    /\ LET loc == procs[p].loc
           payment == Head(loc.rest)
           view == SessionView(loc)
           writes == RowsOf(view.loanPayments, loc.t, payment.loan) # {}
           pc == IF Tail(loc.rest) = <<>> THEN "rsave" ELSE "rfind"
       IN IF writes /\ RowWriteConflict(p, loc.t, payment.loan)
          THEN RAbort(p, "writeConflict")
          ELSE RKeep(p, pc,
                     [loc EXCEPT !.rest = Tail(@),
                                 !.view = <<[view EXCEPT !.loanPayments =
                                               DeleteOne(@, loc.t, payment.loan)]>>,
                                 !.written.rows =
                                     IF writes THEN @ \cup {<<loc.t, payment.loan>>} ELSE @])

\* lines 376-382: the paths the handler changed since it read the document
\* are written over the document the session sees
RSave(p) ==
    /\ procs[p].pc = "rsave"
    /\ LET loc == procs[p].loc
           read == loc.doc
           mem == TransactionPreSave(
                      [read EXCEPT !.status = loc.target, !.loan_deduction = 0,
                                   !.loan_payments = <<>>, !.paid_amount = 0],
                      FALSE, FALSE)
           view == SessionView(loc)
           cur == view.transactions[loc.t]
           versioned == mem.loan_payments # read.loan_payments
           new == [f \in DOMAIN cur |->
                     IF f = "__v" THEN (IF versioned THEN cur.__v + 1 ELSE cur.__v)
                     ELSE IF mem[f] # read[f] THEN mem[f] ELSE cur[f]]
       IN IF versioned /\ ~VersionMatches(cur, read)
          THEN RAbort(p, "versionError")
          ELSE IF new # cur /\ TransactionWriteConflict(p, loc.t)
          THEN RAbort(p, "writeConflict")
          ELSE RKeep(p, "rcommit",
                     [loc EXCEPT !.snap = <<SessionSnapshot(loc)>>,
                                 !.view = <<[view EXCEPT !.transactions[loc.t] = new]>>,
                                 !.written.transactions =
                                     IF new # cur THEN @ \cup {loc.t} ELSE @])

RECURSIVE DeleteRows(_, _)
DeleteRows(rows, keys) ==
    IF keys = {} THEN rows
    ELSE LET k == CHOOSE x \in keys : TRUE
         IN DeleteRows(DeleteOne(rows, k[1], k[2]), keys \ {k})

\* line 385: session.commitTransaction() makes the session's writes visible
RCommit(p) ==
    /\ procs[p].pc = "rcommit"
    /\ LET loc == procs[p].loc
           view == SessionView(loc)
       IN /\ Store([DB EXCEPT
                     !.loans = [i \in 1..Len(loans) |->
                                  IF i \in loc.written.loans THEN view.loans[i] ELSE loans[i]],
                     !.transactions = [t \in 1..Len(transactions) |->
                                  IF t \in loc.written.transactions
                                  THEN view.transactions[t] ELSE transactions[t]],
                     !.loanPayments = DeleteRows(loanPayments, loc.written.rows)])
          /\ last' = [op |-> loc.target, t |-> loc.t, kept |-> FALSE,
                      amount |-> loc.doc.loan_deduction, before |-> <<>>]
    /\ procs' = [procs EXCEPT ![p] = Idle]
    /\ UNCHANGED requested

\* transactions are created between reversal requests, not during one
CreateTransactionQuiet == Quiescent /\ CreateTransaction

NextReverse ==
    \/ \E p \in Procs : RStart(p)
    \/ \E p \in Procs : RFind(p)
    \/ \E p \in Procs : RLoan(p)
    \/ \E p \in Procs : RDelete(p)
    \/ \E p \in Procs : RSave(p)
    \/ \E p \in Procs : RCommit(p)
    \/ CreateTransactionQuiet
    \/ CreateLoanQuiet
    \/ ApproveLoanQuiet

SpecReverse == Init /\ [][NextReverse]_vars

\* ------------------------------------------------------------------- claims
\* Sum of the total_paid increases of the loans since `before`
RECURSIVE PaidIncrease(_, _, _)
PaidIncrease(before, after, n) ==
    IF n = 0 THEN 0
    ELSE (after[n].total_paid - before[n].total_paid) + PaidIncrease(before, after, n - 1)

\* C1: after a create operation, the amount deducted from the new transaction
\* toward loans (its loan_deduction, and the total_paid increase of the loans)
\* is at most 40% of its total_amount.
C1_AutoDebitCeiling ==
    last.op = "create" =>
        /\ 10 * transactions[last.t].loan_deduction <= 4 * transactions[last.t].total_amount
        /\ 10 * PaidIncrease(last.before, loans, Len(last.before))
               <= 4 * transactions[last.t].total_amount

\* C2: when a completed transaction is created and then cancelled or voided
\* with nothing in between, every loan is stored after the reversal as it
\* was stored immediately before the create (total_paid and status; the
\* loan schema stores no principal_paid or interest_paid).
C2_ReversalInverse ==
    last.op \in {"cancelled", "voided"} /\ last.kept =>
        \A i \in 1..Len(last.before) : loans[i] = last.before[i]

\* C2 witness: a reversal right after the create took back a deduction that
\* had paid a loan off.
C2_Witness ==
    /\ last.op \in {"cancelled", "voided"} /\ last.kept /\ last.amount > 0
    /\ \E i \in 1..Len(last.before) :
          /\ last.before[i].status = "approved"
          /\ last.before[i].total_paid + last.amount = last.before[i].amount
          /\ loans[i] = last.before[i]

\* Sum of the amounts of the LoanPayment rows recorded against loan i
RECURSIVE RecordedAgainst(_, _)
RecordedAgainst(rows, i) ==
    IF rows = <<>> THEN 0
    ELSE (IF Head(rows).loan = i THEN Head(rows).amount ELSE 0)
         + RecordedAgainst(Tail(rows), i)

\* C3: when the create requests in flight have all ended, every loan's
\* total_paid has grown by every amount recorded against it (no cancellation
\* or manual payment runs here, so total_paid is the sum of its LoanPayment
\* rows), and what was recorded does not exceed what the loan had outstanding.
C3_NoDoubleAllocation ==
    Quiescent =>
        \A i \in 1..Len(loans) :
            /\ loans[i].total_paid = RecordedAgainst(loanPayments, i)
            /\ RecordedAgainst(loanPayments, i) <= loans[i].amount

\* The hook's work on the loans when the create handler saves a second time
SecondSaveKeepsLoans(s, q, lk, up, st) ==
    LET r == CreateInsert(DB, s, q, lk, up, st)
        loc == CreateFindLoans(r.db, r.loc)
        db2 == CreateSecondSave(r.db, loc)
    IN CreateSavesAgain(loc) =>
          db2.loans = r.db.loans /\ db2.loanPayments = r.db.loanPayments

C5_SplitSumsToTotalPaid ==
    \A i \in 1..Len(loans) :
        JsAdd(JsOr(LoanPrincipalPaid(loans[i]), {0}),
              JsOr(LoanInterestPaid(loans[i]), {0})) = {loans[i].total_paid}

\* C6: no loan's total_paid exceeds its total_amount_with_interest (for a
\* loan that stores none, the amount the code falls back to).
C6_NoOverpayment ==
    \A i \in 1..Len(loans) :
        loans[i].total_paid
            <= Num(JsOr(LoanTotalAmountWithInterest(loans[i]), {loans[i].amount}))

\* C7: after a transaction create, a loan approval, a manual loan payment or
\* a transaction cancel/void has completed, the supplier's current_balance is
\* the sum of (amount - total_paid) over the supplier's approved loans.
C7_BalanceConsistent ==
    last.op \in {"create", "approve", "loanPayment", "cancelled", "voided"} =>
        \A s \in Suppliers : current_balance[s] = AggregateBalance(DB, s)

\* What is owed on the first n loans of the collection by supplier s
RECURSIVE Owed(_, _, _)
Owed(ls, s, n) ==
    IF n = 0 THEN 0
    ELSE (IF ls[n].supplier = s /\ ls[n].status = "approved"
          THEN ls[n].amount - ls[n].total_paid ELSE 0) + Owed(ls, s, n - 1)

\* C8: a call of recalculateSupplierBalance leaves the supplier's
\* current_balance equal to the sum of (amount - total_paid) over the
\* supplier's approved loans, changes nothing else, and a second call right
\* after it would write the same value.
C8_RecalculateBalance ==
    [][last'.op = "syncBalance" =>
          LET s == last'.t
          IN /\ current_balance' = [current_balance EXCEPT ![s] = Owed(loans, s, Len(loans))]
             /\ UNCHANGED <<loans, transactions, loanPayments, payments>>
             /\ recalculateSupplierBalance(DB, s).balance
                   = recalculateSupplierBalance(recalculateSupplierBalance(DB, s), s).balance
             /\ current_balance' = recalculateSupplierBalance(DB, s).balance]_vars

\* C8 witness: the balance was recalculated to a non-zero sum while the
\* supplier also had a loan that is not approved and a partly paid one.
C8_Witness ==
    /\ last.op = "syncBalance"
    /\ current_balance[last.t] > 0
    /\ \E i \in 1..Len(loans) : loans[i].status # "approved"
    /\ \E i \in 1..Len(loans) : loans[i].status = "approved" /\ loans[i].total_paid > 0
    /\ current_balance[last.t] = Owed(loans, last.t, Len(loans))

\* C9: only operations that run recalculateSupplierBalance (a transaction
\* save through its hook, the balance synchronisation) change a supplier's
\* current_balance.
C9_SingleWriter ==
    [][last'.op \notin {"create", "syncBalance"} =>
          current_balance' = current_balance]_vars

\* C10: when a transaction is created while two loans L1 (older) and L2 are
\* approved and 40% of its total exceeds what L1 is still owed, L1 is paid in
\* full and L2 receives min(budget - L1's remainder, L2's remainder).
C10_FifoAcrossLoans ==
    (/\ last.op = "create"
     /\ Len(last.before) = 2
     /\ \A i \in 1..2 : /\ last.before[i].status = "approved"
                        /\ last.before[i].total_paid < last.before[i].amount
     /\ MaxDeductionAmount(transactions[last.t].total_amount)
           > last.before[1].amount - last.before[1].total_paid)
    => LET rem1 == last.before[1].amount - last.before[1].total_paid
           rem2 == last.before[2].amount - last.before[2].total_paid
           budget == MaxDeductionAmount(transactions[last.t].total_amount)
       IN /\ loans[1].status = "paid"
          /\ loans[1].total_paid = last.before[1].total_paid + rem1
          /\ loans[2].total_paid = last.before[2].total_paid + Min(budget - rem1, rem2)

\* C11: a cancel or void goes through only on a completed transaction; on a
\* pending, cancelled or voided one it is rejected and the transaction, the
\* loans and the LoanPayment rows stay as they were.
C11_ReverseOnlyCompleted ==
    [][/\ last'.op \in {"cancelled", "voided"} =>
             transactions[last'.t].status = "completed"
       /\ last'.op = "reverseRejected" =>
             /\ transactions[last'.t].status \in {"pending", "cancelled", "voided"}
             /\ UNCHANGED <<transactions, loans, loanPayments>>]_vars

\* C11 witness: a reversal was rejected on a pending transaction that holds
\* a loan deduction, while another transaction is already cancelled.
C11_Witness ==
    /\ last.op = "reverseRejected"
    /\ transactions[last.t].status = "pending"
    /\ transactions[last.t].loan_deduction > 0
    /\ \E t \in 1..Len(transactions) : transactions[t].status = "cancelled"

\* C12: a cancel or void in which a write fails leaves every loan, every
\* LoanPayment row and the transaction as they were before it started.
C12_ReversalAtomic ==
    [][last'.op = "reverseFailed" =>
          UNCHANGED <<loans, loanPayments, transactions>>]_vars

\* C12 witness: the final transaction save of a reversal failed after the
\* loan had been written back and the LoanPayment row deleted.
C12_Witness ==
    /\ last.op = "reverseFailed"
    /\ last.amount = 3
    /\ transactions[last.t].status = "completed"
    /\ transactions[last.t].loan_deduction > 0
    /\ \E k \in 1..Len(loanPayments) : loanPayments[k].transaction = last.t

\* C13: a create in which a step fails after the first write leaves no
\* transaction record, no LoanPayment row and no loan change behind.
C13_CreateAtomic ==
    [][last'.op = "createFailed" =>
          UNCHANGED <<transactions, loanPayments, loans>>]_vars

\* 0.40 of the average total_amount of the supplier's completed transactions,
\* rounded half up; 0 for a supplier without completed transactions
RECURSIVE CompletedTotal(_, _, _)
CompletedTotal(ts, s, n) ==
    IF n = 0 THEN [sum |-> 0, count |-> 0]
    ELSE LET r == CompletedTotal(ts, s, n - 1)
         IN IF ts[n].supplier = s /\ ts[n].status = "completed"
            THEN [sum |-> r.sum + ts[n].total_amount, count |-> r.count + 1]
            ELSE r

\* C14: a loan request that is granted asked for no more than the supplier's
\* eligible amount at the time of the request: 10 * count * amount is at most
\* 4 * sum + 5 * count (rounding to the nearest whole peso).
C14_LoanSizeLimit ==
    [][last'.op = "createLoan" =>
          LET r == CompletedTotal(transactions, last'.t, Len(transactions))
          IN 10 * r.count * loans'[Len(loans')].amount <= 4 * r.sum + 5 * r.count]_vars

\* C15: a loan request for a supplier without a completed transaction is
\* rejected and creates no loan.
C15_NoHistoryNoLoan ==
    [][/\ Len(loans') > Len(loans) =>
             \E t \in 1..Len(transactions) :
                /\ transactions[t].supplier = loans'[Len(loans')].supplier
                /\ transactions[t].status = "completed"
       /\ last'.op = "createLoanRejected" => loans' = loans]_vars

\* C15 witness: a loan request was rejected for a supplier whose only
\* transactions are cancelled or voided.
C15_Witness ==
    /\ last.op = "createLoanRejected"
    /\ Len(transactions) > 0
    /\ \A t \in 1..Len(transactions) : transactions[t].status \in {"cancelled", "voided"}

\* C16: a manual loan payment (a LoanPayment row without a transaction) is
\* recorded only with an amount above 0 and on a loan that is approved; a
\* request that fails either test adds no row and leaves the loan alone.
C16_ManualPaymentPreconditions ==
    [][(/\ Len(loanPayments') > Len(loanPayments)
        /\ loanPayments'[Len(loanPayments')].transaction = 0)
       => /\ loanPayments'[Len(loanPayments')].amount > 0
          /\ loans[loanPayments'[Len(loanPayments')].loan].status = "approved"]_vars

\* C17: when an operation applies a payment to an approved loan, the loan
\* becomes paid if and only if its total_paid has then reached the amount
\* plus the interest it was requested with (compared in hundredths).
C17_PaidAtFullRepayment ==
    [][\A i \in 1..Len(loans) :
          (loans[i].status = "approved" /\ loans'[i].total_paid > loans[i].total_paid)
          => (loans'[i].status = "paid"
                <=> 100 * loans'[i].total_paid >= loans[i].amount * (100 + requested[i]))]_vars

\* C18: a loan leaves pending only to approved, rejected, cancelled or
\* voided; a rejected, cancelled or voided loan keeps its status; an approved
\* loan does not go back to pending; a paid loan stays paid unless a
\* transaction cancel or void takes it back to approved.
C18_LoanStatusOneWay ==
    [][\A i \in 1..Len(loans) :
          /\ loans[i].status = "pending" =>
                loans'[i].status \in {"pending", "approved", "rejected", "cancelled", "voided"}
          /\ loans[i].status \in {"rejected", "cancelled", "voided"} =>
                loans'[i].status = loans[i].status
          /\ loans[i].status = "approved" => loans'[i].status # "pending"
          /\ loans[i].status = "paid" =>
                \/ loans'[i].status = "paid"
                \/ loans'[i].status = "approved" /\ last'.op \in {"cancelled", "voided"}]_vars

\* Sum of the amounts of a transaction's loan_payments list
RECURSIVE ListedAmount(_)
ListedAmount(lps) ==
    IF lps = <<>> THEN 0 ELSE Head(lps).amount + ListedAmount(Tail(lps))

\* C19: every stored transaction's loan_deduction is the sum of the amounts
\* in its loan_payments list, and every loan that holds a LoanPayment row of
\* the transaction is named in that list.
C19_DeductionsMatchList ==
    \A t \in 1..Len(transactions) :
        /\ transactions[t].loan_deduction = ListedAmount(transactions[t].loan_payments)
        /\ \A k \in 1..Len(loanPayments) :
              loanPayments[k].transaction = t =>
                 \E j \in 1..Len(transactions[t].loan_payments) :
                    transactions[t].loan_payments[j].loan = loanPayments[k].loan

\* C19 witness: one transaction holds a deduction, its list entry and its
\* LoanPayment row, and another transaction has just been cancelled or voided.
C19_Witness ==
    \E t, u \in 1..Len(transactions) :
        /\ transactions[t].status = "completed"
        /\ transactions[t].loan_deduction > 0
        /\ Len(transactions[t].loan_payments) = 1
        /\ \E k \in 1..Len(loanPayments) : loanPayments[k].transaction = t
        /\ last.op \in {"cancelled", "voided"} /\ last.t = u
        /\ transactions[u].loan_payments = <<>>

\* C20: after a create and after a Payment recorded against a transaction,
\* every stored transaction with status completed has paid_amount equal to
\* amount_after_deduction, and that equal to total_amount - loan_deduction.
C20_PaidAmountOfCompleted ==
    last.op \in {"create", "payment"} =>
        \A t \in 1..Len(transactions) :
            transactions[t].status = "completed" =>
                /\ transactions[t].paid_amount = transactions[t].amount_after_deduction
                /\ transactions[t].amount_after_deduction
                      = transactions[t].total_amount - transactions[t].loan_deduction

\* The stored CreditScore record of supplier s (the collection holds at most
\* one per supplier)
ScoreOf(s) == CHOOSE r \in creditScores[s] : TRUE

\* C21: after the create of a supplier's first completed transaction, the
\* supplier's CreditScore has score 20, credit_percentage 0.40 and
\* eligible_amount round(0.40 * total_amount of that transaction).
C21_StarterCredit ==
    (/\ last.op = "create"
     /\ transactions[last.t].status = "completed"
     /\ CompletedTotal(transactions, transactions[last.t].supplier, Len(transactions)).count = 1)
    => LET s == transactions[last.t].supplier
       IN /\ creditScores[s] # {}
          /\ ScoreOf(s).score = 20
          /\ ScoreOf(s).credit_percentage = 40
          /\ ScoreOf(s).eligible_amount
                = 100 * ((8 * transactions[last.t].total_amount + 10) \div 20)

\* C22: after a create that leaves the supplier with two or more completed
\* transactions, the supplier's CreditScore has credit_percentage 0.40 and
\* eligible_amount round(0.40 * average total_amount), whatever its score.
C22_FixedCreditPercentage ==
    (/\ last.op = "create"
     /\ transactions[last.t].status = "completed"
     /\ CompletedTotal(transactions, transactions[last.t].supplier, Len(transactions)).count >= 2)
    => LET s == transactions[last.t].supplier
           r == CompletedTotal(transactions, s, Len(transactions))
       IN /\ creditScores[s] # {}
          /\ ScoreOf(s).credit_percentage = 40
          /\ ScoreOf(s).eligible_amount
                = 100 * ((8 * r.sum + 10 * r.count) \div (20 * r.count))

\* The CreditScore records the hook stores when it runs on transaction t for
\* a supplier that has no record yet
FreshScores(t) ==
    HookCreditScore([DB EXCEPT !.scores = [s \in Suppliers |-> {}]], t).db.scores

\* C23: after an operation whose save recomputed the credit score (a create
\* or an update of a completed transaction), the supplier's CreditScore has
\* the values that the same recompute gives for the same set of completed
\* transactions in a history that had no earlier record: the values depend on
\* the set of completed transactions only, not on how it was reached.
C23_ScoreDependsOnCompletedSet ==
    (/\ last.op \in {"create", "update"}
     /\ transactions[last.t].status = "completed"
     /\ HookCreditScore(DB, last.t).ok)
    => creditScores[transactions[last.t].supplier]
          = FreshScores(last.t)[transactions[last.t].supplier]

\* C24: after a successful cancel or void of a completed transaction, the
\* transaction has loan_deduction 0, an empty loan_payments list, paid_amount
\* 0 and the status cancelled (respectively voided), and no LoanPayment row
\* refers to the transaction.
C24_StateAfterReversal ==
    last.op \in {"cancelled", "voided"}
    => /\ transactions[last.t].loan_deduction = 0
       /\ transactions[last.t].loan_payments = <<>>
       /\ transactions[last.t].paid_amount = 0
       /\ transactions[last.t].status = last.op
       /\ \A k \in 1..Len(loanPayments) : loanPayments[k].transaction # last.t

\* a transaction that had a loan deduction was voided, and a manual payment
\* row of the same loan is still there
C24_Witness ==
    /\ last.op = "voided"
    /\ last.amount > 0
    /\ ManualRows # {}

\* C25: cancelled and voided are terminal: no operation changes the status of
\* a cancelled or voided transaction, gives it a loan deduction again or
\* records a loan payment row for it.
C25_ReversedIsTerminal ==
    [][\A t \in 1..Len(transactions) :
          transactions[t].status \in {"cancelled", "voided"}
          => /\ transactions'[t].status = transactions[t].status
             /\ transactions'[t].loan_deduction = 0
             /\ \A k \in 1..Len(loanPayments') : loanPayments'[k].transaction # t]_vars

\* C26: whenever a payment of amount a > 0 is applied to a loan, the loan's
\* interest_paid grows by min(a, max(interest still owed, 0)), the interest
\* owed being the loan's total with interest less its amount and its
\* interest_paid before the payment, and its principal_paid grows by the rest
\* of a (amounts in hundredths; a path the document does not hold counts as
\* 0, as the code reads it).
C26_InterestFirstSplit ==
    [][\A i \in 1..Len(loans) :
          loans'[i].total_paid > loans[i].total_paid
          => LET a == 100 * (loans'[i].total_paid - loans[i].total_paid)
                 interestPaid == 100 * Num(JsOr(LoanInterestPaid(loans[i]), {0}))
                 owed == loans[i].amount * requested[i] - interestPaid
                 portion == Min(a, IF owed > 0 THEN owed ELSE 0)
             IN /\ 100 * Num(JsOr(LoanInterestPaid(loans'[i]), {0})) = interestPaid + portion
                /\ 100 * Num(JsOr(LoanPrincipalPaid(loans'[i]), {0}))
                      = 100 * Num(JsOr(LoanPrincipalPaid(loans[i]), {0})) + (a - portion)]_vars

\* C27: a cancel or void operation leaves every CreditScore record unchanged.
C27_ReversalKeepsCreditScore ==
    [][last'.op \in {"cancelled", "voided"} => creditScores' = creditScores]_vars

\* a transaction was cancelled and the supplier's record still counts three
\* transactions, of which two are completed now
C27_Witness ==
    /\ last.op = "cancelled"
    /\ creditScores[transactions[last.t].supplier] # {}
    /\ ScoreOf(transactions[last.t].supplier).transaction_count = 3
    /\ CompletedTotal(transactions, transactions[last.t].supplier, Len(transactions)).count = 2

\* The supplier's completed transactions that are not soft-deleted
LiveCompleted(s) ==
    {t \in 1..Len(transactions) :
        /\ transactions[t].supplier = s
        /\ transactions[t].status = "completed"
        /\ ~transactions[t].is_deleted}

\* C28: soft-deleted transactions do not count toward credit: a loan request
\* is accepted only for a supplier with a completed transaction that is not
\* soft-deleted, and the transaction_count a create's recompute stores is the
\* number of the supplier's completed transactions that are not soft-deleted.
C28_DeletedDoNotCount ==
    /\ last.op = "createLoan" => LiveCompleted(last.t) # {}
    /\ (/\ last.op = "create"
        /\ transactions[last.t].status = "completed"
        /\ Cardinality(CompletedOf(DB, transactions[last.t].supplier)) >= 2
        /\ HookCreditScore(DB, last.t).ok)
       => ScoreOf(transactions[last.t].supplier).transaction_count
             = Cardinality(LiveCompleted(transactions[last.t].supplier))

\* C29: after each create-transaction, manual loan payment, cancel or void
\* operation, every loan's total_paid equals the sum of the amounts of the
\* LoanPayment rows that exist for the loan.
C29_PaidEqualsRows ==
    last.op \in {"create", "loanPayment", "cancelled", "voided"}
    => \A i \in 1..Len(loans) : loans[i].total_paid = RecordedAgainst(loanPayments, i)

\* Sum of the amounts the transactions' loan_payments lists hold for loan i
RECURSIVE ListedFor(_, _, _)
ListedFor(ts, i, n) ==
    IF n = 0 THEN 0
    ELSE RecordedAgainst(ts[n].loan_payments, i) + ListedFor(ts, i, n - 1)

\* C30: with two cancel or void requests of the same completed transaction
\* in flight, the transaction is reversed at most once: a committed reversal
\* reduces each loan's total_paid by exactly the amount that leaves the
\* transaction's loan_payments list, and no loan's total_paid is ever
\* negative.
C30_ReversedAtMostOnce ==
    /\ [](\A i \in 1..Len(loans) : loans[i].total_paid >= 0)
    /\ [][last'.op \in {"cancelled", "voided"}
          => \A i \in 1..Len(loans) :
                loans[i].total_paid - loans'[i].total_paid
                   = ListedFor(transactions, i, Len(transactions))
                        - ListedFor(transactions', i, Len(transactions'))]_vars

\* the second of two requests in flight was refused by the version check
\* after the first had committed the reversal of a transaction with a loan
\* deduction
C30_Witness ==
    /\ last.op = "versionError"
    /\ last.amount > 0
    /\ transactions[last.t].status \in {"cancelled", "voided"}
    /\ transactions[last.t].loan_payments = <<>>

====
